---------------------------- MODULE Spec2Model ----------------------------
(***************************************************************************)
(* A model of src/pdf_generator.py: the glyph-safe sanitizer (_sanitize),  *)
(* the inline formatter (_fmt_inline) and the line scanner                 *)
(* (markdown_to_flowables).                                                *)
(*                                                                         *)
(* A Python str is modelled as a sequence of characters, each character a  *)
(* one-character string; characters outside ASCII are written by their     *)
(* code point ("U2013" is EN DASH).  A flowable is a record: Paragraph     *)
(* (text, style), Table (rows) or Spacer, as the code constructs them.     *)
(***************************************************************************)
EXTENDS Integers, Sequences, FiniteSets

VARIABLES
    md,         \* the argument of the running call: its text as raw lines
    lines,      \* md.strip().splitlines() + [""]          (line 134)
    idx,        \* position of the for loop in lines       (line 134)
    flow,       \* local: the flowables appended so far    (line 114)
    code_buf,   \* local: lines of the open fence          (line 114)
    table_buf,  \* local: rows of the pending table        (line 114)
    in_code,    \* local: the fence flag                   (line 115)
    pc,         \* where the running call stands
    results,    \* the values the finished calls returned, oldest first
    calls,      \* number of calls begun
    txt,        \* _sanitize / _fmt_inline: the string being rewritten
    arg,        \* _sanitize / _fmt_inline: the argument of the first call
    once        \* _sanitize: the result of the first of two calls

vars == <<md, lines, idx, flow, code_buf, table_buf, in_code, pc, results,
          calls, txt, arg, once>>

scanVars == <<md, lines, idx, flow, code_buf, table_buf, in_code, results>>
textVars == <<txt, arg, once>>

----------------------------------------------------------------------------
(* Python str operations, on sequences of characters.                      *)

\* The characters str.strip() removes, among the characters of the model.
Whitespace == {" ", "\t", "\n", "U00A0", "U202F"}

RECURSIVE LStrip(_)
LStrip(s) ==
    IF s # <<>> /\ Head(s) \in Whitespace THEN LStrip(Tail(s)) ELSE s

RECURSIVE RStrip(_)
RStrip(s) ==
    IF s # <<>> /\ s[Len(s)] \in Whitespace
    THEN RStrip(SubSeq(s, 1, Len(s) - 1)) ELSE s

Strip(s) == RStrip(LStrip(s))

\* s.strip(c) for a one-character c: every leading and trailing c goes.
RECURSIVE LStripChar(_, _)
LStripChar(s, c) ==
    IF s # <<>> /\ Head(s) = c THEN LStripChar(Tail(s), c) ELSE s

RECURSIVE RStripChar(_, _)
RStripChar(s, c) ==
    IF s # <<>> /\ s[Len(s)] = c
    THEN RStripChar(SubSeq(s, 1, Len(s) - 1), c) ELSE s

StripChar(s, c) == RStripChar(LStripChar(s, c), c)

StartsWith(s, p) == Len(s) >= Len(p) /\ SubSeq(s, 1, Len(p)) = p

Contains(s, c) == \E i \in DOMAIN s : s[i] = c

\* s[n:]
Drop(s, n) == SubSeq(s, n + 1, Len(s))

\* s.replace(pat, rep): the non-overlapping occurrences, left to right.
RECURSIVE Replace(_, _, _)
Replace(s, pat, rep) ==
    IF s = <<>> THEN <<>>
    ELSE IF StartsWith(s, pat) THEN rep \o Replace(Drop(s, Len(pat)), pat, rep)
    ELSE <<Head(s)>> \o Replace(Tail(s), pat, rep)

\* s.split(c) for a one-character c: always at least one field.
RECURSIVE Split(_, _)
Split(s, c) ==
    IF ~Contains(s, c) THEN <<s>>
    ELSE LET i == CHOOSE k \in DOMAIN s :
                      s[k] = c /\ \A j \in 1..(k - 1) : s[j] # c
         IN <<SubSeq(s, 1, i - 1)>> \o Split(Drop(s, i), c)

\* sep.join(parts)
RECURSIVE Join(_, _)
Join(parts, sep) ==
    IF parts = <<>> THEN <<>>
    ELSE IF Len(parts) = 1 THEN parts[1]
    ELSE parts[1] \o sep \o Join(Tail(parts), sep)

\* Whether pat occurs in s as a substring.
IsInfix(pat, s) ==
    \E i \in 0..(Len(s) - Len(pat)) : SubSeq(s, i + 1, i + Len(pat)) = pat

----------------------------------------------------------------------------
(* _sanitize (lines 72-85).                                                *)

\* The replacement table, in the order the dict is written and iterated.
repl == << <<"U2013", <<"-">> >>, <<"U2014", <<"-">> >>,
           <<"U00A0", <<" ">> >>, <<"U202F", <<" ">> >>,
           <<"U00AD", <<"-">> >>, <<"U2060", <<>> >> >>

\* unicodedata.category(ch).startswith("C"), among the characters of the
\* model: controls (Cc) and format characters (Cf).
CategoryC == {"\n", "\t", "U0007", "U200B", "U00AD", "U2060"}

RECURSIVE ReplaceGlyphs(_, _)
ReplaceGlyphs(s, k) ==
    IF k > Len(repl) THEN s
    ELSE ReplaceGlyphs(Replace(s, <<repl[k][1]>>, repl[k][2]), k + 1)

StripControl(s) ==
    SelectSeq(s, LAMBDA ch : ch \notin CategoryC \/ ch \in {"\n", "\t"})

DecodeEntities(s) ==
    Replace(Replace(Replace(s,
        <<"&", "n", "b", "s", "p", ";">>, <<" ">>),
        <<"&", "q", "u", "o", "t", ";">>, <<"\"">>),
        <<"&", "a", "m", "p", ";">>, <<"&">>)

Sanitize(s) == DecodeEntities(StripControl(ReplaceGlyphs(s, 1)))

----------------------------------------------------------------------------
(* _fmt_inline (lines 89-93).                                              *)

\* html.escape(t): "&" first, then "<", ">", and the two quotes.
HtmlEscape(s) ==
    Replace(Replace(Replace(Replace(Replace(s,
        <<"&">>, <<"&", "a", "m", "p", ";">>),
        <<"<">>, <<"&", "l", "t", ";">>),
        <<">">>, <<"&", "g", "t", ";">>),
        <<"\"">>, <<"&", "q", "u", "o", "t", ";">>),
        <<"'">>, <<"&", "#", "x", "2", "7", ";">>)

\* The replacement templates as the source writes them: in the raw strings
\* r"<b>\\1</b>" and r"<i>\\1</i>" the backslash is doubled.
BoldTemplate == <<"<", "b", ">", "\\", "\\", "1", "<", "/", "b", ">">>
ItalicTemplate == <<"<", "i", ">", "\\", "\\", "1", "<", "/", "i", ">">>

\* re's expansion of a replacement template: backslash-digit is the group,
\* backslash-backslash is one literal backslash, any other character itself.
RECURSIVE Expand(_, _)
Expand(tpl, group) ==
    IF tpl = <<>> THEN <<>>
    ELSE IF Head(tpl) = "\\" /\ Len(tpl) >= 2 /\ tpl[2] = "1"
         THEN group \o Expand(Drop(tpl, 2), group)
    ELSE IF Head(tpl) = "\\" /\ Len(tpl) >= 2 /\ tpl[2] = "\\"
         THEN <<"\\">> \o Expand(Drop(tpl, 2), group)
    ELSE <<Head(tpl)>> \o Expand(Tail(tpl), group)

\* The ends q at which  delim (.+?) delim  can match from the start of s:
\* the group s[Len(delim)+1 .. q-1] is not empty and holds no newline ("."
\* matches none), and delim follows it.
MatchEnds(s, delim) ==
    IF ~StartsWith(s, delim) THEN {}
    ELSE {q \in (Len(delim) + 2)..Len(s) :
            /\ StartsWith(Drop(s, q - 1), delim)
            /\ \A j \in (Len(delim) + 1)..(q - 1) : s[j] # "\n"}

Min(S) == CHOOSE x \in S : \A y \in S : x <= y
Max(S) == CHOOSE x \in S : \A y \in S : x >= y

\* re.sub(delim(.+?)delim, tpl, s): leftmost match, shortest group, then on
\* from the end of the match.
RECURSIVE ReSub(_, _, _)
ReSub(s, delim, tpl) ==
    IF s = <<>> THEN <<>>
    ELSE IF MatchEnds(s, delim) # {}
         THEN LET q == Min(MatchEnds(s, delim))
              IN Expand(tpl, SubSeq(s, Len(delim) + 1, q - 1))
                   \o ReSub(Drop(s, q - 1 + Len(delim)), delim, tpl)
    ELSE <<Head(s)>> \o ReSub(Tail(s), delim, tpl)

FmtBold(s) == ReSub(s, <<"*", "*">>, BoldTemplate)
FmtItalic(s) == ReSub(s, <<"*">>, ItalicTemplate)

FmtInline(t) == FmtItalic(FmtBold(HtmlEscape(t)))

----------------------------------------------------------------------------
(* The flowables the scanner constructs.                                   *)

Paragraph(text, style) == [kind |-> "Paragraph", text |-> text, style |-> style]

\* Spacer(1, 0.15 * inch): every spacer of the scanner is this one.
Spacer == [kind |-> "Spacer"]

\* _table (lines 97-108): each cell a Body paragraph; the style directives
\* are the same for every table.
Table(rows) ==
    [kind |-> "Table",
     rows |-> [r \in DOMAIN rows |->
                 [c \in DOMAIN rows[r] |-> Paragraph(rows[r][c], "Body")]]]

----------------------------------------------------------------------------
(* markdown_to_flowables (lines 112-177).  The locals of a call are the    *)
(* record st = [flow, code_buf, table_buf, in_code].                       *)

\* flow, code_buf, table_buf = [], [], [];  in_code = False
FreshLocals ==
    [flow |-> <<>>, code_buf |-> <<>>, table_buf |-> <<>>, in_code |-> FALSE]

\* md.strip().splitlines() for the text whose lines are md (the raw lines
\* hold no line break): the blank lines at both ends go with the whitespace
\* that starts the first line left and ends the last one.
StripSplit(m) ==
    LET inked == {i \in DOMAIN m : Strip(m[i]) # <<>>}
    IN IF inked = {} THEN <<>>
       ELSE LET a == Min(inked)
                b == Max(inked)
            IN [i \in 1..(b - a + 1) |->
                  IF a = b THEN Strip(m[a])
                  ELSE IF i = 1 THEN LStrip(m[a])
                  ELSE IF i = b - a + 1 THEN RStrip(m[b])
                  ELSE m[a + i - 1]]

\* html.escape("\n".join(code_buf)).replace(" ", "&nbsp;").replace("\n", "<br/>")
CodeMarkup(buf) ==
    Replace(Replace(HtmlEscape(Join(buf, <<"\n">>)),
        <<" ">>, <<"&", "n", "b", "s", "p", ";">>),
        <<"\n">>, <<"<", "b", "r", "/", ">">>)

\* A flush_code that forgets code_buf.clear().
flush_code_keep(st) ==
    IF st.code_buf # <<>>
    THEN [st EXCEPT !.flow = Append(@, Paragraph(CodeMarkup(st.code_buf), "Code"))]
    ELSE st

flush_code(st) ==
    IF st.code_buf # <<>>
    THEN [st EXCEPT !.flow = Append(@, Paragraph(CodeMarkup(st.code_buf), "Code")),
                    !.code_buf = <<>>]
    ELSE st

\* A flush_table that forgets table_buf.clear().
flush_table_keep(st) ==
    IF st.table_buf # <<>>
    THEN [st EXCEPT !.flow = @ \o <<Table(st.table_buf), Spacer>>]
    ELSE st

flush_table(st) ==
    IF st.table_buf # <<>>
    THEN [st EXCEPT !.flow = @ \o <<Table(st.table_buf), Spacer>>,
                    !.table_buf = <<>>]
    ELSE st

\* Three backticks.  The lexer of TLA+ takes no backtick in a string, so
\* the character is written by its code point, U+0060.
Fence == <<"U0060", "U0060", "U0060">>

\* line.strip().startswith(Fence)
IsFence(line) == StartsWith(Strip(line), Fence)

\* "|" in line and not line.lstrip().startswith("#")
IsTableLine(line) == Contains(line, "|") /\ ~StartsWith(LStrip(line), <<"#">>)

\* [c.strip() for c in line.strip().strip("|").split("|")]
Cells(line) ==
    LET fields == Split(StripChar(Strip(line), "|"), "|")
    IN [i \in DOMAIN fields |-> Strip(fields[i])]

\* re.fullmatch(r"-+", c.replace(" ", ""))
IsHyphens(c) ==
    LET d == Replace(c, <<" ">>, <<>>)
    IN d # <<>> /\ \A i \in DOMAIN d : d[i] = "-"

IsSeparator(cells) == \A i \in DOMAIN cells : IsHyphens(cells[i])

\* The heading prefixes in the order lines 158-163 test them.
HeadingPrefix == << <<"#", " ">>, <<"#", "#", " ">>, <<"#", "#", "#", " ">> >>
HeadingStyle == <<"H1", "H2", "H3">>

IsListItem(line) == StartsWith(line, <<"-", " ">>) \/ StartsWith(line, <<"*", " ">>)

IsBlank(line) == Strip(line) = <<>>

Bullet == <<"U2022", " ">>

\* A scanner that tests for a table line before it tests the fence flag.
BranchTableFirst(st, line) ==
    IF IsFence(line) THEN "fence"
    ELSE IF IsTableLine(line)
         THEN IF IsSeparator(Cells(line)) THEN "separator" ELSE "row"
    ELSE IF st.in_code THEN "code"
    ELSE IF StartsWith(line, HeadingPrefix[1]) THEN "h1"
    ELSE IF StartsWith(line, HeadingPrefix[2]) THEN "h2"
    ELSE IF StartsWith(line, HeadingPrefix[3]) THEN "h3"
    ELSE IF IsListItem(line) THEN "list"
    ELSE IF IsBlank(line) THEN "blank"
    ELSE "paragraph"

\* The branch of the loop body that handles line with the locals st: the
\* conditions of lines 138-174 in the order the code tests them, each
\* branch ending the iteration.
Branch(st, line) ==
    IF IsFence(line) THEN "fence"
    ELSE IF st.in_code THEN "code"
    ELSE IF IsTableLine(line)
         THEN IF IsSeparator(Cells(line)) THEN "separator" ELSE "row"
    ELSE IF StartsWith(line, HeadingPrefix[1]) THEN "h1"
    ELSE IF StartsWith(line, HeadingPrefix[2]) THEN "h2"
    ELSE IF StartsWith(line, HeadingPrefix[3]) THEN "h3"
    ELSE IF IsListItem(line) THEN "list"
    ELSE IF IsBlank(line) THEN "blank"
    ELSE "paragraph"

\* A scanner whose fence line toggles the flag and never flushes the code.
FenceToggleOnly(st) == [st EXCEPT !.in_code = ~st.in_code]

\* Lines 138-142: toggle the flag; on leaving the fence, flush the code.
FenceToggle(st) ==
    LET t == [st EXCEPT !.in_code = ~st.in_code]
    IN IF ~t.in_code THEN flush_code(t) ELSE t

\* A scanner that keeps blank lines out of the code buffer.
CodeAppendInked(st, line) ==
    IF Strip(line) = <<>> THEN st ELSE [st EXCEPT !.code_buf = Append(@, line)]

\* Lines 143-145.
CodeAppend(st, line) == [st EXCEPT !.code_buf = Append(@, line)]

\* Lines 152-153.
RowAppend(st, line) ==
    [st EXCEPT !.table_buf =
        Append(@, [i \in DOMAIN Cells(line) |-> FmtInline(Cells(line)[i])])]

\* A scanner that renders the separator row as a row of the table.
SeparatorKept(st, line) == RowAppend(st, line)

\* Lines 150-151: the separator row is skipped.
SeparatorSkip(st, line) == st

\* Lines 154-155 and then one flow.append(block).
Emit(st, block) == [flush_table(st) EXCEPT !.flow = Append(@, block)]

\* A scanner that cuts line[2:] off every heading, whatever its level.
HeadingBlockTwo(k, line) == Paragraph(FmtInline(Drop(line, 2)), HeadingStyle[k])

\* Lines 159, 161, 163.
HeadingBlock(k, line) ==
    Paragraph(FmtInline(Drop(line, Len(HeadingPrefix[k]))), HeadingStyle[k])

\* A scanner that leaves the marker on the list item.
ListBlockMarked(line) == Paragraph(Bullet \o FmtInline(line), "Body")

\* Line 167.
ListBlock(line) == Paragraph(Bullet \o FmtInline(Drop(line, 2)), "Body")

BodyBlock(line) == Paragraph(FmtInline(line), "Body")

\* One iteration of the loop body (lines 135-174) on the sanitized line.
Step(st, line) ==
    LET b == Branch(st, line)
    IN CASE b = "fence" -> FenceToggle(st)
         [] b = "code" -> CodeAppend(st, line)
         [] b = "separator" -> SeparatorSkip(st, line)
         [] b = "row" -> RowAppend(st, line)
         [] b = "h1" -> Emit(st, HeadingBlock(1, line))
         [] b = "h2" -> Emit(st, HeadingBlock(2, line))
         [] b = "h3" -> Emit(st, HeadingBlock(3, line))
         [] b = "list" -> Emit(st, ListBlock(line))
         [] b = "blank" -> Emit(st, Spacer)
         [] OTHER -> Emit(st, BodyBlock(line))

\* A scanner that flushes the code before the table after the loop.
FinalFlushCodeFirst(st) == flush_table(flush_code(st))

\* Line 176: flush_table(); flush_code()
FinalFlush(st) == flush_code(flush_table(st))

\* The loop over ls from the locals st.
RECURSIVE Scan(_, _)
Scan(st, ls) ==
    IF ls = <<>> THEN st ELSE Scan(Step(st, Sanitize(Head(ls))), Tail(ls))

\* The value a call returns for the text whose raw lines are m.
MarkdownToFlowables(m) ==
    FinalFlush(Scan(FreshLocals, Append(StripSplit(m), <<>>))).flow

----------------------------------------------------------------------------
(* Bounds and inputs.                                                      *)

MaxLines == 3       \* raw lines of the text of a call, in Spec
MaxCalls == 2       \* calls in a row, in SpecCalls
MaxSanParts == 3    \* pieces of the argument of _sanitize, in SpecSan
MaxFmtParts == 5    \* pieces of the argument of _fmt_inline, in SpecFmt

\* One raw line of each kind the scanner tells apart.
LineChoices ==
    { <<>>,
      <<"#", " ", "A">>,
      <<"#", "#", " ", "A">>,
      <<"#", "#", "#", " ", "A">>,
      <<"-", " ", "A">>,
      <<"A", "U2013", "B">>,
      Fence,
      <<"|", "A", "|", "B">>,
      <<"|", "-", "|", "-">>,
      <<"#", " ", "A", "|", "B">> }

SeqsUpTo(S, n) == UNION {[1..k -> S] : k \in 0..n}

\* The text of the quick-start of the module docstring (lines 35-40).
QuickStart ==
    << <<>>,
       <<"#", "#", "#", " ", "D", "e", "m", "o">>,
       <<"|", " ", "*", "*", "B", "o", "l", "d", "*", "*", " ", "|", " ",
         "*", "I", "t", "a", "l", "i", "c", "*", " ", "|">>,
       <<"|", "-", "-", "-", "-", "-", "-", "-", "-", "-", "-", "|",
         "-", "-", "-", "-", "-", "-", "-", "-", "-", "-", "|">>,
       <<"|", " ", "c", "e", "l", "l", " ", "A", " ", " ", " ", "|", " ",
         "c", "e", "l", "l", " ", "B", " ", " ", " ", "|">>,
       <<>> >>

\* A table row, then a fenced block that is closed.
TableThenFence == << <<"|", "A", "|", "B">>, Fence, <<"A">>, Fence >>

\* Two table rows with a fenced block between them.
RowsAroundFence ==
    << <<"|", "A", "|", "B">>, Fence, <<"A">>, Fence, <<"|", "A", "|", "B">> >>

\* A table row with two pipes at each end.
OuterPipes == << <<"|", "|", "A", "|", "B", "|", "|">> >>

Inputs ==
    SeqsUpTo(LineChoices, MaxLines) \cup {QuickStart, TableThenFence, RowsAroundFence,
          OuterPipes}

RECURSIVE Concat(_)
Concat(parts) == IF parts = <<>> THEN <<>> ELSE Head(parts) \o Concat(Tail(parts))

SanPieces ==
    { <<"&">>, <<"a", "m", "p", ";">>, <<"n", "b", "s", "p", ";">>,
      <<"q", "u", "o", "t", ";">>, <<"U2013">>, <<"U200B">>, <<"U00A0">>,
      <<"A">> }

SanInputs == {Concat(p) : p \in SeqsUpTo(SanPieces, MaxSanParts)}

FmtPieces == { <<"*", "*">>, <<"*">>, <<"A">>, <<"<">>, <<" ">> }

FmtInputs == {Concat(p) : p \in SeqsUpTo(FmtPieces, MaxFmtParts)}

\* The texts of the calls in a row: one that ends inside a fence, one that
\* ends with rows in the table buffer, one of each other kind of line.
CallInputs ==
    { << Fence, <<"A">> >>,
      << <<"|", "A", "|", "B">>, <<"|", "-", "|", "-">> >>,
      << <<"|", "A", "|", "B">>, Fence >>,
      << <<"#", " ", "A">> >>,
      << <<"#", "#", " ", "A">>, <<"#", "#", "#", " ", "A">> >>,
      << <<"-", " ", "A">> >>,
      << <<"A", "U2013", "B">>, <<>>, <<"A">> >>,
      << >> }

----------------------------------------------------------------------------
(* The calls of markdown_to_flowables.                                     *)

Locals ==
    [flow |-> flow, code_buf |-> code_buf, table_buf |-> table_buf,
     in_code |-> in_code]

SetLocals(st) ==
    /\ flow' = st.flow
    /\ code_buf' = st.code_buf
    /\ table_buf' = st.table_buf
    /\ in_code' = st.in_code

\* A scanner whose lists and flag are made once and shared by the calls.
AllocateOnce ==
    IF calls = 0 THEN SetLocals(FreshLocals)
    ELSE UNCHANGED <<flow, code_buf, table_buf, in_code>>

\* Lines 114-115: every call makes its own lists and flag.
Allocate == SetLocals(FreshLocals)

\* A loop that does not move on.
SameIdx(i) == i

\* Line 134: the for loop takes the next element.
NextIdx(i) == i + 1

\* line = _sanitize(raw)                                         (line 135)
Line == Sanitize(lines[idx])

Init ==
    /\ md = <<>> /\ lines = <<>> /\ idx = 0
    /\ flow = <<>> /\ code_buf = <<>> /\ table_buf = <<>> /\ in_code = FALSE
    /\ pc = "idle" /\ results = <<>> /\ calls = 0
    /\ txt = <<>> /\ arg = <<>> /\ once = <<>>

\* A call whose loop runs over the lines of the text alone, without the
\* empty line after them.
EnterNoSentinel(m) ==
    /\ md' = m
    /\ Allocate
    /\ lines' = StripSplit(m)
    /\ idx' = 1
    /\ calls' = calls + 1
    /\ pc' = "loop"
    /\ UNCHANGED <<results, txt, arg, once>>

\* A call with the text m: lines 112-115 and the list of line 134.
Enter(m) ==
    /\ md' = m
    /\ Allocate
    /\ lines' = Append(StripSplit(m), <<>>)
    /\ idx' = 1
    /\ calls' = calls + 1
    /\ pc' = "loop"
    /\ UNCHANGED <<results, txt, arg, once>>

Begin == pc = "idle" /\ \E m \in Inputs : Enter(m)

\* One iteration that takes branch tag and leaves the locals st.
Iterate(tag, st) ==
    /\ pc = "loop"
    /\ idx <= Len(lines)
    /\ Branch(Locals, Line) = tag
    /\ SetLocals(st)
    /\ idx' = NextIdx(idx)
    /\ UNCHANGED <<md, lines, pc, results, calls, txt, arg, once>>

FenceLine == Iterate("fence", FenceToggle(Locals))

CodeLine == Iterate("code", CodeAppend(Locals, Line))

SeparatorRow == Iterate("separator", SeparatorSkip(Locals, Line))

TableRow == Iterate("row", RowAppend(Locals, Line))

Heading ==
    \E k \in 1..3 :
        Iterate(<<"h1", "h2", "h3">>[k], Emit(Locals, HeadingBlock(k, Line)))

ListItem == Iterate("list", Emit(Locals, ListBlock(Line)))

BlankLine == Iterate("blank", Emit(Locals, Spacer))

NormalParagraph == Iterate("paragraph", Emit(Locals, BodyBlock(Line)))

\* Lines 176-177, after the loop.
Finish ==
    /\ pc = "loop"
    /\ idx > Len(lines)
    /\ SetLocals(FinalFlush(Locals))
    /\ results' = Append(results, FinalFlush(Locals).flow)
    /\ pc' = "returned"
    /\ UNCHANGED <<md, lines, idx, calls, txt, arg, once>>

LoopStep ==
    \/ FenceLine
    \/ CodeLine
    \/ SeparatorRow
    \/ TableRow
    \/ Heading
    \/ ListItem
    \/ BlankLine
    \/ NormalParagraph
    \/ Finish

Next == Begin \/ LoopStep

Spec == Init /\ [][Next]_vars

----------------------------------------------------------------------------
(* Calls in a row: what one call leaves behind meets the next one.         *)

FirstCall == pc = "idle" /\ \E m \in CallInputs : Enter(m)

CallAgain ==
    /\ pc = "returned"
    /\ calls < MaxCalls
    /\ \E m \in CallInputs : Enter(m)

NextCalls == FirstCall \/ LoopStep \/ CallAgain

SpecCalls == Init /\ [][NextCalls]_vars

----------------------------------------------------------------------------
(* _sanitize applied to a string and then to its own result, one step of   *)
(* the function at a time.                                                 *)

InitSan ==
    /\ arg \in SanInputs /\ txt = arg /\ once = <<>>
    /\ pc = "san_repl" /\ calls = 1
    /\ md = <<>> /\ lines = <<>> /\ idx = 0 /\ results = <<>>
    /\ flow = <<>> /\ code_buf = <<>> /\ table_buf = <<>> /\ in_code = FALSE

\* Lines 79-80.
SanReplace ==
    /\ pc = "san_repl"
    /\ txt' = ReplaceGlyphs(txt, 1)
    /\ pc' = "san_strip"
    /\ UNCHANGED <<arg, once, calls>> /\ UNCHANGED scanVars

\* Lines 81-82.
SanStrip ==
    /\ pc = "san_strip"
    /\ txt' = StripControl(txt)
    /\ pc' = "san_decode"
    /\ UNCHANGED <<arg, once, calls>> /\ UNCHANGED scanVars

\* Lines 83-85; the value returned by the first call is the argument of the
\* second.
SanDecode ==
    /\ pc = "san_decode"
    /\ txt' = DecodeEntities(txt)
    /\ IF calls = 1
       THEN once' = DecodeEntities(txt) /\ calls' = 2 /\ pc' = "san_repl"
       ELSE pc' = "san_done" /\ UNCHANGED <<once, calls>>
    /\ UNCHANGED arg /\ UNCHANGED scanVars

NextSan == SanReplace \/ SanStrip \/ SanDecode

SpecSan == InitSan /\ [][NextSan]_vars

----------------------------------------------------------------------------
(* _fmt_inline, one statement at a time.                                   *)

InitFmt ==
    /\ arg \in FmtInputs /\ txt = arg /\ once = <<>>
    /\ pc = "fmt_escape" /\ calls = 1
    /\ md = <<>> /\ lines = <<>> /\ idx = 0 /\ results = <<>>
    /\ flow = <<>> /\ code_buf = <<>> /\ table_buf = <<>> /\ in_code = FALSE

\* Line 90.
Escape ==
    /\ pc = "fmt_escape"
    /\ txt' = HtmlEscape(txt)
    /\ pc' = "fmt_bold"
    /\ UNCHANGED <<arg, once, calls>> /\ UNCHANGED scanVars

\* Line 91.
Bold ==
    /\ pc = "fmt_bold"
    /\ txt' = FmtBold(txt)
    /\ pc' = "fmt_italic"
    /\ UNCHANGED <<arg, once, calls>> /\ UNCHANGED scanVars

\* Lines 92-93.
Italic ==
    /\ pc = "fmt_italic"
    /\ txt' = FmtItalic(txt)
    /\ pc' = "fmt_done"
    /\ UNCHANGED <<arg, once, calls>> /\ UNCHANGED scanVars

NextFmt == Escape \/ Bold \/ Italic

SpecFmt == InitFmt /\ [][NextFmt]_vars

----------------------------------------------------------------------------
(* The claims.                                                             *)

\* The value the last finished call returned.
Returned == results[Len(results)]

\* The lines of the running call as the loop body sees them.
Sanitized == [i \in DOMAIN lines |-> Sanitize(lines[i])]

Tables(blocks) == SelectSeq(blocks, LAMBDA b : b.kind = "Table")

\* C1: for the quick-start text the call returns exactly two blocks, the
\* level-3 heading Demo and one table whose rows are (bold Bold, italic
\* Italic) and (cell A, cell B).
C1_QuickStartTwoBlocks ==
    (pc = "returned" /\ md = QuickStart) =>
        Returned =
          << Paragraph(<<"D", "e", "m", "o">>, "H3"),
             Table(<< << <<"<", "b", ">", "B", "o", "l", "d", "<", "/", "b", ">">>,
                         <<"<", "i", ">", "I", "t", "a", "l", "i", "c",
                           "<", "/", "i", ">">> >>,
                      << <<"c", "e", "l", "l", " ", "A">>,
                         <<"c", "e", "l", "l", " ", "B">> >> >>) >>

\* C2: whenever a block is appended to the output, every pending buffer
\* that this step does not flush is empty.
C2_BuffersFlushedBeforeAppend ==
    [][Len(flow') > Len(flow) =>
          /\ table_buf' = table_buf => table_buf = <<>>
          /\ code_buf' = code_buf => code_buf = <<>>]_vars

\* The groups that  delim (.+?) delim  captures in s, leftmost first.
RECURSIVE Groups(_, _)
Groups(s, delim) ==
    IF s = <<>> THEN <<>>
    ELSE IF MatchEnds(s, delim) # {}
         THEN LET q == Min(MatchEnds(s, delim))
              IN <<SubSeq(s, Len(delim) + 1, q - 1)>>
                   \o Groups(Drop(s, q - 1 + Len(delim)), delim)
    ELSE Groups(Tail(s), delim)

Element(tag, content) == <<"<", tag, ">">> \o content \o <<"<", "/", tag, ">">>

\* C3: the output of _fmt_inline holds, for every pair of double asterisks
\* around X, a bold element whose content is X, and for every remaining
\* pair of single asterisks around X an italic element whose content is X.
C3_InlineContentKept ==
    pc = "fmt_done" =>
        LET escaped == HtmlEscape(arg)
            bolds == Groups(escaped, <<"*", "*">>)
            italics == Groups(ReSub(escaped, <<"*", "*">>, <<>>), <<"*">>)
        IN /\ \A i \in DOMAIN bolds :
                ~Contains(bolds[i], "*") => IsInfix(Element("b", bolds[i]), txt)
           /\ \A i \in DOMAIN italics : IsInfix(Element("i", italics[i]), txt)

\* The rows of each run of consecutive table lines of ls that holds a row
\* other than the separator, cur being the rows of the run so far.
RECURSIVE Runs(_, _)
Runs(ls, cur) ==
    LET closed == IF cur = <<>> THEN <<>> ELSE <<cur>>
    IN IF ls = <<>> THEN closed
       ELSE IF Contains(Head(ls), "|") /\ ~StartsWith(LStrip(Head(ls)), <<"#">>)
            THEN IF IsSeparator(Cells(Head(ls)))
                 THEN Runs(Tail(ls), cur)
                 ELSE Runs(Tail(ls),
                        Append(cur, [i \in DOMAIN Cells(Head(ls)) |->
                                        FmtInline(Cells(Head(ls))[i])]))
       ELSE closed \o Runs(Tail(ls), <<>>)

FenceIndexes == {i \in DOMAIN lines : IsFence(Sanitized[i])}

\* C5: when the last fence of the text is never closed, the call returns
\* what the lines before that fence yield, the pending table if there is
\* one, and then exactly one code paragraph that holds every line after the
\* fence, in order.
C5_UnclosedFence ==
    (pc = "returned" /\ Cardinality(FenceIndexes) % 2 = 1) =>
        LET f == Max(FenceIndexes)
            before == Scan(FreshLocals, SubSeq(lines, 1, f - 1))
        IN Returned =
             flush_table(before).flow
               \o <<Paragraph(CodeMarkup(SubSeq(Sanitized, f + 1, Len(lines))), "Code")>>

C5_Witness ==
    /\ pc = "returned"
    /\ Cardinality(FenceIndexes) = 1
    /\ Max(FenceIndexes) + 2 = Len(lines)
    /\ Contains(lines[Len(lines) - 1], "|")
    /\ Returned[Len(Returned)].style = "Code"

\* The number of hash characters that start s.
RECURSIVE HashCount(_)
HashCount(s) == IF s # <<>> /\ Head(s) = "#" THEN 1 + HashCount(Tail(s)) ELSE 0

IsHeadingOf(s, k) == HashCount(s) = k /\ Len(s) > k /\ s[k + 1] = " "

\* The block rules 5 to 8 of the specification give a line.
RuleBlock(s) ==
    IF \E k \in 1..3 : IsHeadingOf(s, k)
    THEN Paragraph(FmtInline(Drop(s, HashCount(s) + 1)),
                   <<"H1", "H2", "H3">>[HashCount(s)])
    ELSE IF Len(s) >= 2 /\ s[1] \in {"-", "*"} /\ s[2] = " "
    THEN Paragraph(<<"U2022", " ">> \o FmtInline(Drop(s, 2)), "Body")
    ELSE IF \A i \in DOMAIN s : s[i] \in Whitespace
    THEN Spacer
    ELSE Paragraph(FmtInline(s), "Body")

PlainText == \A i \in DOMAIN lines : ~Contains(Sanitized[i], "|") /\ ~IsFence(Sanitized[i])

\* C6: a text with no line that holds a pipe and no fence line yields one
\* block for each line, in the order of the lines: the heading, list item,
\* spacer or paragraph that rules 5 to 8 give the line.
C6_PlainLinesInOrder ==
    (pc = "returned" /\ PlainText) =>
        Returned = [i \in DOMAIN lines |-> RuleBlock(Sanitized[i])]

C6_Witness ==
    /\ pc = "returned" /\ PlainText
    /\ Len(lines) = 4
    /\ Returned[1].kind = "Paragraph" /\ Returned[1].style = "H2"
    /\ Returned[2].kind = "Spacer"
    /\ Returned[3].kind = "Paragraph" /\ Returned[3].style = "Body"
    /\ Returned[3].text[1] = "U2022"

\* C7: outside a fence, a line without a pipe that starts with exactly k
\* hash characters and a space, k from 1 to 3, appends exactly one heading
\* of level k whose text is the line without its first k + 1 characters.
C7_HeadingLevel ==
    [][\A k \in 1..3 :
         (/\ pc = "loop" /\ idx <= Len(lines) /\ ~in_code
          /\ ~Contains(Line, "|") /\ IsHeadingOf(Line, k))
         => /\ Len(flow') = Len(flow) + 1 + (IF table_buf = <<>> THEN 0 ELSE 2)
            /\ flow'[Len(flow')] =
                 Paragraph(FmtInline(Drop(Line, k + 1)), <<"H1", "H2", "H3">>[k])]_vars

C7_Witness ==
    /\ pc = "loop" /\ idx = 3 /\ ~in_code
    /\ IsHeadingOf(Sanitized[1], 2) /\ IsHeadingOf(Sanitized[2], 3)
    /\ Len(flow) = 2
    /\ flow[1].style = "H2" /\ flow[2].style = "H3"

\* C8: _sanitize applied to its own result returns that result.
C8_SanitizeIdempotent == pc = "san_done" => txt = once

\* C9: what a call returns is what its text alone determines, whatever the
\* calls before it were and left behind.
C9_FreshPerCall == pc = "returned" => Returned = MarkdownToFlowables(md)

C9_Witness ==
    /\ pc = "returned"
    /\ Len(results) = 2
    /\ results[1][Len(results[1])].kind = "Paragraph"
    /\ results[1][Len(results[1])].style = "Code"
    /\ Len(Tables(results[1])) = 1
    /\ Len(Tables(results[2])) = 1

\* The branches of the loop body, and the statements after the loop, that
\* this step is a step of.
Taken ==
    {i \in 1..9 :
       <<FenceLine, CodeLine, SeparatorRow, TableRow, Heading, ListItem,
         BlankLine, NormalParagraph, Finish>>[i]}

\* C10: every line of the trimmed text and the one empty line after them is
\* handled once, each by exactly one branch of the loop body; from every
\* state of the loop the call goes on, and after the last line it returns a
\* sequence of blocks.  (The lines left to handle decrease with every step,
\* so the call ends.)
C10_EachLineOnceThenReturn ==
    /\ [](pc = "loop" =>
            /\ Len(lines) = Len(StripSplit(md)) + 1
            /\ idx \in 1..(Len(lines) + 1)
            /\ idx <= Len(lines) =>
                 Branch(Locals, Line) \in
                   {"fence", "code", "separator", "row", "h1", "h2", "h3",
                    "list", "blank", "paragraph"})
    /\ [][pc = "loop" =>
            /\ Cardinality(Taken) = 1
            /\ \/ pc' = "loop" /\ idx <= Len(lines) /\ idx' = idx + 1
               \/ /\ pc' = "returned" /\ idx = Len(lines) + 1
                  /\ results' = Append(results, flow')
                  /\ \A i \in DOMAIN flow' : flow'[i].kind \in {"Paragraph", "Table", "Spacer"}]_vars

C10_Witness ==
    /\ pc = "returned"
    /\ Len(lines) = 4
    /\ in_code
    /\ Len(Returned) = 2

\* C11: while the fence flag is set, a line that is not a fence line, be it
\* a table line, a heading, a list item or blank, is appended to the code
\* buffer and changes neither the output nor the table buffer; a fence line
\* toggles the flag, leaves the table buffer alone, adds nothing to the code
\* buffer, and adds to the output at most the paragraph of the code buffer,
\* which never holds a fence line.
C11_FencedLinesBuffered ==
    /\ [](\A i \in DOMAIN code_buf : ~IsFence(code_buf[i]))
    /\ [][(pc = "loop" /\ idx <= Len(lines)) =>
            /\ (in_code /\ ~IsFence(Line)) =>
                  /\ code_buf' = Append(code_buf, Line)
                  /\ flow' = flow /\ table_buf' = table_buf /\ in_code'
            /\ IsFence(Line) =>
                  /\ in_code' = ~in_code
                  /\ table_buf' = table_buf
                  /\ code_buf' = IF in_code THEN <<>> ELSE code_buf
                  /\ flow' \in {flow,
                                Append(flow, Paragraph(CodeMarkup(code_buf), "Code"))}]_vars

C11_Witness ==
    /\ pc = "loop" /\ idx = 4 /\ in_code
    /\ flow = <<>> /\ table_buf = <<>>
    /\ Len(code_buf) = 2
    /\ IsTableLine(code_buf[1])
    /\ code_buf[2] = <<>>

\* The lines after the fence line that opened the fence the scan is in.
FencedLines ==
    SubSeq(Sanitized, Max({i \in 1..(idx - 1) : IsFence(Sanitized[i])}) + 1, idx - 1)

\* C12 as stated: every closing fence line appends exactly one code
\* paragraph, which holds the lines between the opening and the closing
\* fence in order, and leaves the code buffer empty.
C12_ClosingFenceOneCodeBlock ==
    [][(pc = "loop" /\ idx <= Len(lines) /\ in_code /\ IsFence(Line)) =>
          /\ flow' = Append(flow, Paragraph(CodeMarkup(FencedLines), "Code"))
          /\ code_buf' = <<>>]_vars

\* C12 amended: a closing fence line with at least one line between it and
\* its opening fence appends exactly one code paragraph, which holds those
\* lines in order; a closing fence line right after its opening fence
\* appends nothing; either way the flag is cleared and the code buffer is
\* left empty.
C12_ClosingFenceFlushes ==
    [][(pc = "loop" /\ idx <= Len(lines) /\ in_code /\ IsFence(Line)) =>
          /\ code_buf = FencedLines
          /\ code_buf' = <<>>
          /\ ~in_code'
          /\ table_buf' = table_buf
          /\ flow' = IF FencedLines = <<>> THEN flow
                     ELSE Append(flow, Paragraph(CodeMarkup(FencedLines), "Code"))]_vars

C12_Witness ==
    /\ pc = "loop" /\ idx = 4 /\ ~in_code
    /\ IsFence(Sanitized[1]) /\ IsFence(Sanitized[3])
    /\ Sanitized[2] # <<>>
    /\ flow = <<Paragraph(CodeMarkup(<<Sanitized[2]>>), "Code")>>
    /\ code_buf = <<>>

\* The rows of each uninterrupted run of table lines of ls that holds a row
\* other than the separator: a fence line, a line inside a fence and every
\* other line that is no table line end the run.  cur holds the rows of the
\* run so far, fenced tells whether the line is inside a fence.
RECURSIVE TableRuns(_, _, _)
TableRuns(ls, cur, fenced) ==
    LET closed == IF cur = <<>> THEN <<>> ELSE <<cur>>
    IN IF ls = <<>> THEN closed
       ELSE IF IsFence(Head(ls)) THEN closed \o TableRuns(Tail(ls), <<>>, ~fenced)
       ELSE IF fenced THEN closed \o TableRuns(Tail(ls), <<>>, fenced)
       ELSE IF Contains(Head(ls), "|") /\ ~StartsWith(LStrip(Head(ls)), <<"#">>)
            THEN IF IsSeparator(Cells(Head(ls)))
                 THEN TableRuns(Tail(ls), cur, fenced)
                 ELSE TableRuns(Tail(ls),
                        Append(cur, [i \in DOMAIN Cells(Head(ls)) |->
                                        FmtInline(Cells(Head(ls))[i])]),
                        fenced)
       ELSE closed \o TableRuns(Tail(ls), <<>>, fenced)

\* C13: the tables of the output are, in order, the uninterrupted runs of
\* table lines: rows with a paragraph, a blank line, a fence line or fenced
\* lines between them are rows of different tables.
C13_TablePerRun ==
    pc = "returned" =>
        Tables(Returned) =
          [i \in DOMAIN TableRuns(Sanitized, <<>>, FALSE) |->
              Table(TableRuns(Sanitized, <<>>, FALSE)[i])]

\* C14: the step after the last line appends the table of the rows left in
\* the table buffer, if any, and after it the code paragraph of the lines
\* left in the code buffer, if any, and leaves both buffers empty; with both
\* left, the Table comes before the code paragraph.
C14_TableFlushedBeforeCode ==
    [][(pc = "loop" /\ pc' = "returned") =>
          /\ idx = Len(lines) + 1
          /\ table_buf' = <<>> /\ code_buf' = <<>>
          /\ flow' = flow
                \o (IF table_buf = <<>> THEN <<>> ELSE <<Table(table_buf), Spacer>>)
                \o (IF code_buf = <<>> THEN <<>>
                    ELSE <<Paragraph(CodeMarkup(code_buf), "Code")>>)
          /\ results' = Append(results, flow')]_vars

C14_Witness ==
    /\ pc = "returned" /\ in_code
    /\ table_buf = <<>> /\ code_buf = <<>>
    /\ Len(lines) = 4
    /\ IsTableLine(Sanitized[1]) /\ IsFence(Sanitized[2]) /\ ~IsFence(Sanitized[3])
    /\ Len(Returned) = 3
    /\ Returned[1].kind = "Table"
    /\ Returned[2].kind = "Spacer"
    /\ Returned[3] = Paragraph(CodeMarkup(<<Sanitized[3], <<>>>>), "Code")

\* The fields between the pipes of the trimmed line without one leading
\* and one trailing pipe, each field trimmed.
FieldCells(line) ==
    LET t == Strip(line)
        u == IF t # <<>> /\ Head(t) = "|" THEN Tail(t) ELSE t
        v == IF u # <<>> /\ u[Len(u)] = "|" THEN SubSeq(u, 1, Len(u) - 1) ELSE u
        fields == Split(v, "|")
    IN [i \in DOMAIN fields |-> Strip(fields[i])]

\* C15: the row a table line adds to the table buffer holds, inline
\* formatted, the trimmed fields of the trimmed line without at most one
\* leading and at most one trailing pipe, so that further pipes at the ends
\* give empty cells.
C15_OnePipeStripped ==
    [][(/\ pc = "loop" /\ idx <= Len(lines) /\ ~in_code /\ ~IsFence(Line)
        /\ IsTableLine(Line) /\ ~IsSeparator(FieldCells(Line)))
       => table_buf' =
            Append(table_buf,
                   [i \in DOMAIN FieldCells(Line) |-> FmtInline(FieldCells(Line)[i])])]_vars

\* The pieces of s between the occurrences of sep, leftmost first.
RECURSIVE SplitOn(_, _)
SplitOn(s, sep) ==
    LET hits == {i \in 1..(Len(s) - Len(sep) + 1) :
                    SubSeq(s, i, i + Len(sep) - 1) = sep}
    IN IF hits = {} THEN <<s>>
       ELSE <<SubSeq(s, 1, Min(hits) - 1)>>
              \o SplitOn(SubSeq(s, Min(hits) + Len(sep), Len(s)), sep)

\* What line i of the running call is to the scan: a fence line, a line
\* inside a fence, a separator row, a table row, or a line with a block of
\* its own.
LineKind(i) ==
    IF IsFence(Sanitized[i]) THEN "fence"
    ELSE IF Cardinality({j \in 1..(i - 1) : IsFence(Sanitized[j])}) % 2 = 1 THEN "code"
    ELSE IF Contains(Sanitized[i], "|") /\ ~StartsWith(LStrip(Sanitized[i]), <<"#">>)
         THEN IF IsSeparator(Cells(Sanitized[i])) THEN "separator" ELSE "row"
    ELSE "own"

\* The lines of kind k from line i on, in order.
RECURSIVE LinesOfKind(_, _)
LinesOfKind(k, i) ==
    IF i > Len(lines) THEN <<>>
    ELSE (IF LineKind(i) = k THEN <<Sanitized[i]>> ELSE <<>>) \o LinesOfKind(k, i + 1)

\* The headings, paragraphs, list items and spacers of blocks, without the
\* Spacer that follows every Table.
RECURSIVE OwnBlocks(_)
OwnBlocks(blocks) ==
    IF blocks = <<>> THEN <<>>
    ELSE IF Head(blocks).kind = "Table"
    THEN IF Len(blocks) >= 2 /\ blocks[2].kind = "Spacer"
         THEN OwnBlocks(Tail(Tail(blocks)))
         ELSE OwnBlocks(Tail(blocks))
    ELSE IF Head(blocks).kind = "Paragraph" /\ Head(blocks).style = "Code"
    THEN OwnBlocks(Tail(blocks))
    ELSE <<Head(blocks)>> \o OwnBlocks(Tail(blocks))

\* The rows of the tables of blocks, each row as the texts of its cells.
RECURSIVE RowsOf(_)
RowsOf(blocks) ==
    IF blocks = <<>> THEN <<>>
    ELSE (IF Head(blocks).kind = "Table"
          THEN [i \in DOMAIN Head(blocks).rows |->
                  [j \in DOMAIN Head(blocks).rows[i] |-> Head(blocks).rows[i][j].text]]
          ELSE <<>>)
         \o RowsOf(Tail(blocks))

\* The lines of the code paragraphs of blocks, as marked up.
RECURSIVE CodeLinesOf(_)
CodeLinesOf(blocks) ==
    IF blocks = <<>> THEN <<>>
    ELSE (IF Head(blocks).kind = "Paragraph" /\ Head(blocks).style = "Code"
          THEN SplitOn(Head(blocks).text, <<"<", "b", "r", "/", ">">>)
          ELSE <<>>)
         \o CodeLinesOf(Tail(blocks))

\* C16: the lines with a block of their own, the table rows and the fenced
\* lines (the empty line after the text is a line like the others) each
\* show up once, in order, in the output: as the blocks other than tables
\* and code, as the rows of the tables, and as the lines of the code
\* paragraphs; the output holds nothing else but the Spacer after each Table.
C16_NoLineLostOrDuplicated ==
    pc = "returned" =>
        /\ OwnBlocks(Returned) =
             [i \in DOMAIN LinesOfKind("own", 1) |-> RuleBlock(LinesOfKind("own", 1)[i])]
        /\ RowsOf(Returned) =
             [i \in DOMAIN LinesOfKind("row", 1) |->
                 [j \in DOMAIN Cells(LinesOfKind("row", 1)[i]) |->
                     FmtInline(Cells(LinesOfKind("row", 1)[i])[j])]]
        /\ CodeLinesOf(Returned) =
             [i \in DOMAIN LinesOfKind("code", 1) |->
                 CodeMarkup(<<LinesOfKind("code", 1)[i]>>)]

C16_Witness ==
    /\ pc = "returned"
    /\ Len(lines) = 4
    /\ Len(OwnBlocks(Returned)) = 1
    /\ Len(RowsOf(Returned)) = 1
    /\ Len(CodeLinesOf(Returned)) = 1
    /\ Len(Returned) = 4

\* C17: between two lines of the scan, and when the call has returned, the
\* code buffer holds lines only while the fence flag is set; a fence line
\* that sets the flag finds the code buffer empty.
C17_CodeBufferOnlyInFence ==
    pc \in {"loop", "returned"} => (~in_code => code_buf = <<>>)

C17_Witness ==
    /\ pc = "loop" /\ idx = 4 /\ ~in_code /\ code_buf = <<>>
    /\ IsFence(Sanitized[1]) /\ IsHeadingOf(Sanitized[2], 1) /\ IsFence(Sanitized[3])
    /\ Len(flow) = 1

\* C18: the call never returns an empty sequence.  Outside a fence the
\* empty line after the text appends a Spacer, nothing is appended after
\* it, and the Spacer is the last block returned; inside a fence the last
\* block returned is a code paragraph whose last line is that empty line.
C18_NeverEmpty ==
    /\ [][(pc = "loop" /\ idx = Len(lines) /\ ~in_code /\ ~IsFence(Line)) =>
            /\ Len(flow') > Len(flow)
            /\ flow'[Len(flow')] = Spacer
            /\ table_buf' = <<>> /\ code_buf' = <<>> /\ ~in_code']_vars
    /\ [](pc = "returned" =>
            /\ Returned # <<>>
            /\ ~in_code => Returned[Len(Returned)] = Spacer
            /\ in_code =>
                  /\ Returned[Len(Returned)].kind = "Paragraph"
                  /\ Returned[Len(Returned)].style = "Code"
                  /\ LET ls == CodeLinesOf(<<Returned[Len(Returned)]>>)
                     IN ls[Len(ls)] = <<>>)

C18_Witness ==
    /\ pc = "returned" /\ in_code
    /\ Len(lines) = 3
    /\ IsFence(Sanitized[1]) /\ IsListItem(Sanitized[2])
    /\ Returned = <<Paragraph(CodeMarkup(<<Sanitized[2], <<>>>>), "Code")>>

=============================================================================
